---- MODULE Spec2Model ----
(***************************************************************************)
(* Storage gas metering and change-set validation of aptos-gas             *)
(* (aptos-move/aptos-gas/src/transaction/storage.rs).                      *)
(*                                                                         *)
(* The state is the parameter object in use (a pricing variant and a       *)
(* change-set limiter, or a limiter alone), the last pricing call with its *)
(* result, and the position of a running check_change_set.                 *)
(*                                                                         *)
(* Byte payloads are modelled by their length: the code reads data.len()   *)
(* and event_data().len() only.  A state key is modelled by its abstract   *)
(* size (key.size()) and by the outcome of key.encode(): the length of the *)
(* encoding, or a failure.                                                 *)
(***************************************************************************)
EXTENDS Integers, Sequences, FiniteSets, TLC

VARIABLES
    origin,              \* the constructor call that built the object in use
    pricing,             \* StorageGasParameters::pricing, or None
    change_set_configs,  \* the ChangeSetConfigs in use, or None
    ret,                 \* the pricing or predicate call that just returned
    change_set,          \* check_change_set: its argument, or None
    pc,                  \* "idle", "writes", "events" (the loops), "done"
    i,                   \* check_change_set: write entries examined
    j,                   \* check_change_set: events examined
    write_set_size,      \* check_change_set: running total of write sizes
    total_event_size,    \* check_change_set: running total of event sizes
    result               \* check_change_set: "none", "Ok" or "Err"

vars == <<origin, pricing, change_set_configs, ret,
          change_set, pc, i, j, write_set_size, total_event_size, result>>

(***************************************************************************)
(* Bounds of the model.                                                    *)
(***************************************************************************)
\* feature versions 0 .. MaxFeatureVersion are tried
MaxFeatureVersion == 6
\* a change set holds at most MaxWrites write entries
MaxWrites == 2
\* a change set holds at most MaxEvents events
MaxEvents == 2

(***************************************************************************)
(* Machine integers.  TLC's integers are 32 bits wide, so the u64 word is  *)
(* scaled to 31 bits: U64_MAX stands for u64::MAX.  Every program constant *)
(* (1 MiB, 10 MiB, 1024) keeps its value and stays below it.               *)
(***************************************************************************)
U64_MAX == 2147483647

\* const MB: u64 = 1 << 20
MB == 2 ^ 20

\* Option::None
None == [none |-> TRUE]

(***************************************************************************)
(* move_core_types::gas_algebra: GasQuantity + and * saturate at the       *)
(* maximum; checked_sub is None when the subtrahend is larger.             *)
(***************************************************************************)
GasAdd(a, b) == IF a > U64_MAX - b THEN U64_MAX ELSE a + b

GasMul(a, b) == IF a = 0 \/ b = 0 THEN 0
                ELSE IF a > U64_MAX \div b THEN U64_MAX ELSE a * b

\* (key_size + value_size).checked_sub(quota).unwrap_or(NumBytes::zero())
CheckedSubOrZero(a, b) == IF a < b THEN 0 ELSE a - b

(***************************************************************************)
(* Inputs.  The raw parameter bags (AptosGasParameters.txn), the on-chain  *)
(* schedules (StorageGasSchedule), the state keys and the write operations *)
(* the model tries.                                                        *)
(***************************************************************************)
FeatureVersions == 0 .. MaxFeatureVersion

\* AptosGasParameters::zeros(): every parameter is zero
AptosGasParametersZeros ==
    [write_data_per_op |-> 0, write_data_per_new_item |-> 0,
     write_data_per_byte_in_key |-> 0, write_data_per_byte_in_val |-> 0,
     load_data_base |-> 0, load_data_per_byte |-> 0, load_data_failure |-> 0,
     free_write_bytes_quota |-> 0,
     max_bytes_per_write_op |-> 0,
     max_bytes_all_write_ops_per_transaction |-> 0,
     max_bytes_per_event |-> 0,
     max_bytes_all_events_per_transaction |-> 0]

\* StorageGasSchedule::zeros(): every rate is zero
StorageGasScheduleZeros ==
    [per_item_read |-> 0, per_item_create |-> 0, per_item_write |-> 0,
     per_byte_read |-> 0, per_byte_create |-> 0, per_byte_write |-> 0]

GasParamsA ==
    [write_data_per_op |-> 100, write_data_per_new_item |-> 50,
     write_data_per_byte_in_key |-> 1, write_data_per_byte_in_val |-> 2,
     load_data_base |-> 7, load_data_per_byte |-> 3, load_data_failure |-> 11,
     free_write_bytes_quota |-> 1024,
     max_bytes_per_write_op |-> 4,
     max_bytes_all_write_ops_per_transaction |-> 8,
     max_bytes_per_event |-> 3,
     max_bytes_all_events_per_transaction |-> 6]

GasParamsB ==
    [write_data_per_op |-> 9, write_data_per_new_item |-> 4,
     write_data_per_byte_in_key |-> 0, write_data_per_byte_in_val |-> 5,
     load_data_base |-> 2, load_data_per_byte |-> 1, load_data_failure |-> 13,
     free_write_bytes_quota |-> 8,
     max_bytes_per_write_op |-> 4,
     max_bytes_all_write_ops_per_transaction |-> 5,
     max_bytes_per_event |-> 4,
     max_bytes_all_events_per_transaction |-> 3]

GasParamsSet == {GasParamsA, GasParamsB, AptosGasParametersZeros}

ScheduleA ==
    [per_item_read |-> 5, per_item_create |-> 50, per_item_write |-> 30,
     per_byte_read |-> 2, per_byte_create |-> 3, per_byte_write |-> 4]

ScheduleSet == {ScheduleA, StorageGasScheduleZeros}

\* A state key: its place in the write set's key order (id), key.size(), and
\* key.encode(): Ok(bytes of length encoded_len) when encodable, Err otherwise.
Key1 == [id |-> 1, size |-> 20, encodable |-> TRUE, encoded_len |-> 10]
Key2 == [id |-> 2, size |-> 2, encodable |-> TRUE, encoded_len |-> 3]
Key3 == [id |-> 3, size |-> 2, encodable |-> FALSE, encoded_len |-> 0]

Keys == {Key1, Key2, Key3}

\* WriteOp: the variant and the length of its payload (no payload: a Deletion)
DataTags == {"Creation", "CreationWithMetadata",
             "Modification", "ModificationWithMetadata"}

DeletionTags == {"Deletion", "DeletionWithMetadata"}

WriteOpOf(tag, len) == [tag |-> tag, data_len |-> len]

\* payload lengths priced by io_gas_per_write
PricedLens == {0, 5, 1004, 2000}

PricedOps == {WriteOpOf(t, n) : t \in DataTags, n \in PricedLens}
             \cup {WriteOpOf(t, 0) : t \in DeletionTags}

\* loaded byte counts priced by calculate_read_gas (None: nothing was found)
LoadedSet == {None} \cup {[none |-> FALSE, bytes |-> n] : n \in {0, 5, 2000}}

Some(n) == [none |-> FALSE, bytes |-> n]

\* a payload that with Key1 and one more entry of 1 MiB fills the whole
\* address space
HugeLen == U64_MAX - MB - 20

\* write operations of the change sets given to check_change_set
CheckedOps == {WriteOpOf("Creation", 2), WriteOpOf("Deletion", 0),
               WriteOpOf("DeletionWithMetadata", 0),
               WriteOpOf("ModificationWithMetadata", MB - 2),
               WriteOpOf("Modification", HugeLen)}

\* event_data lengths of the change sets given to check_change_set
EventLens == {3, 4}

(***************************************************************************)
(* Results of the pricing operations: a gas cost, or the panic of          *)
(* key.encode().expect("Should be able to serialize state key").           *)
(***************************************************************************)
Gas(n) == [panic |-> FALSE, gas |-> n]

Panic == [panic |-> TRUE]

(***************************************************************************)
(* StoragePricingV1                                                        *)
(***************************************************************************)
V1_new(gas_params) ==
    [variant |-> "V1",
     write_data_per_op |-> gas_params.write_data_per_op,
     write_data_per_new_item |-> gas_params.write_data_per_new_item,
     write_data_per_byte_in_key |-> gas_params.write_data_per_byte_in_key,
     write_data_per_byte_in_val |-> gas_params.write_data_per_byte_in_val,
     load_data_base |-> gas_params.load_data_base,
     load_data_per_byte |-> gas_params.load_data_per_byte,
     load_data_failure |-> gas_params.load_data_failure]

\* V1_calculate_read_gas without the failure penalty: a miss costs the base
V1_calculate_read_gas_no_penalty(self, loaded) ==
    Gas(GasAdd(self.load_data_base,
               IF loaded.none THEN 0
               ELSE GasMul(self.load_data_per_byte, loaded.bytes)))

V1_calculate_read_gas(self, loaded) ==
    Gas(GasAdd(self.load_data_base,
               IF loaded.none THEN self.load_data_failure
               ELSE GasMul(self.load_data_per_byte, loaded.bytes)))

\* V1_io_gas_per_write charging the key bytes inside the Creation and
\* Modification arms only: a Deletion costs the flat per-op fee
V1_io_gas_per_write_flat_deletion(self, key, op) ==
    LET per_op == GasMul(self.write_data_per_op, 1)
        with_key == IF self.write_data_per_byte_in_key > 0
                    THEN GasAdd(per_op, GasMul(self.write_data_per_byte_in_key,
                                               key.encoded_len))
                    ELSE per_op
    IN  IF op.tag \in DeletionTags THEN Gas(per_op)
        ELSE IF self.write_data_per_byte_in_key > 0 /\ ~key.encodable THEN Panic
        ELSE IF op.tag \in {"Creation", "CreationWithMetadata"}
        THEN Gas(GasAdd(with_key,
                        GasAdd(GasMul(self.write_data_per_new_item, 1),
                               GasMul(self.write_data_per_byte_in_val, op.data_len))))
        ELSE Gas(GasAdd(with_key,
                        GasMul(self.write_data_per_byte_in_val, op.data_len)))

\* V1_io_gas_per_write charging key.size() bytes for the key, not the length
\* of its encoding
V1_io_gas_per_write_key_size(self, key, op) ==
    LET per_op == GasMul(self.write_data_per_op, 1)
        with_key == IF self.write_data_per_byte_in_key > 0
                    THEN GasAdd(per_op, GasMul(self.write_data_per_byte_in_key,
                                               key.size))
                    ELSE per_op
    IN  IF op.tag \in {"Creation", "CreationWithMetadata"}
        THEN Gas(GasAdd(with_key,
                        GasAdd(GasMul(self.write_data_per_new_item, 1),
                               GasMul(self.write_data_per_byte_in_val, op.data_len))))
        ELSE IF op.tag \in {"Modification", "ModificationWithMetadata"}
        THEN Gas(GasAdd(with_key,
                        GasMul(self.write_data_per_byte_in_val, op.data_len)))
        ELSE Gas(with_key)

V1_io_gas_per_write(self, key, op) ==
    LET per_op == GasMul(self.write_data_per_op, 1)
        with_key == IF self.write_data_per_byte_in_key > 0
                    THEN GasAdd(per_op, GasMul(self.write_data_per_byte_in_key,
                                               key.encoded_len))
                    ELSE per_op
    IN  IF self.write_data_per_byte_in_key > 0 /\ ~key.encodable THEN Panic
        ELSE IF op.tag \in {"Creation", "CreationWithMetadata"}
        THEN Gas(GasAdd(with_key,
                        GasAdd(GasMul(self.write_data_per_new_item, 1),
                               GasMul(self.write_data_per_byte_in_val, op.data_len))))
        ELSE IF op.tag \in {"Modification", "ModificationWithMetadata"}
        THEN Gas(GasAdd(with_key,
                        GasMul(self.write_data_per_byte_in_val, op.data_len)))
        ELSE Gas(with_key)

(***************************************************************************)
(* StoragePricingV2                                                        *)
(***************************************************************************)
\* assert!(feature_version > 0) is the caller's obligation: both callers keep it
V2_new(feature_version, storage_gas_schedule, gas_params) ==
    [variant |-> "V2",
     feature_version |-> feature_version,
     free_write_bytes_quota |->
         IF feature_version >= 5 THEN gas_params.free_write_bytes_quota
         ELSE IF feature_version >= 3 THEN 1024
         ELSE 0,
     per_item_read |-> storage_gas_schedule.per_item_read,
     per_item_create |-> storage_gas_schedule.per_item_create,
     per_item_write |-> storage_gas_schedule.per_item_write,
     per_byte_read |-> storage_gas_schedule.per_byte_read,
     per_byte_create |-> storage_gas_schedule.per_byte_create,
     per_byte_write |-> storage_gas_schedule.per_byte_write]

\* V2_write_op_size subtracting the quota with a wrapping u64 subtraction
V2_write_op_size_wrapping(self, key, value_len) ==
    IF self.feature_version >= 3
    THEN Gas(IF GasAdd(key.size, value_len) < self.free_write_bytes_quota
             THEN U64_MAX - (self.free_write_bytes_quota
                             - GasAdd(key.size, value_len)) + 1
             ELSE GasAdd(key.size, value_len) - self.free_write_bytes_quota)
    ELSE IF ~key.encodable THEN Panic
    ELSE Gas(GasAdd(key.encoded_len, value_len))

\* V2_write_op_size taking a failed encoding for an empty one
\* (unwrap_or_default for expect)
V2_write_op_size_lenient(self, key, value_len) ==
    IF self.feature_version >= 3
    THEN Gas(CheckedSubOrZero(GasAdd(key.size, value_len),
                              self.free_write_bytes_quota))
    ELSE Gas(GasAdd(IF key.encodable THEN key.encoded_len ELSE 0, value_len))

\* the chargeable size of a write, or the panic of an unencodable key
V2_write_op_size(self, key, value_len) ==
    IF self.feature_version >= 3
    THEN Gas(CheckedSubOrZero(GasAdd(key.size, value_len),
                              self.free_write_bytes_quota))
    ELSE IF ~key.encodable THEN Panic
    ELSE Gas(GasAdd(key.encoded_len, value_len))

V2_calculate_read_gas(self, loaded) ==
    Gas(GasAdd(GasMul(self.per_item_read, 1),
               IF loaded.none THEN 0
               ELSE GasMul(self.per_byte_read, loaded.bytes)))

V2_io_gas_per_write(self, key, op) ==
    LET size == V2_write_op_size(self, key, op.data_len)
    IN  IF op.tag \in {"Creation", "CreationWithMetadata"}
        THEN IF size.panic THEN Panic
             ELSE Gas(GasAdd(GasMul(self.per_item_create, 1),
                             GasMul(size.gas, self.per_byte_create)))
        ELSE IF op.tag \in {"Modification", "ModificationWithMetadata"}
        THEN IF size.panic THEN Panic
             ELSE Gas(GasAdd(GasMul(self.per_item_write, 1),
                             GasMul(size.gas, self.per_byte_write)))
        ELSE Gas(0)

(***************************************************************************)
(* StoragePricing: the closed choice of the two variants                   *)
(***************************************************************************)
calculate_read_gas(self, loaded) ==
    IF self.variant = "V1" THEN V1_calculate_read_gas(self, loaded)
    ELSE V2_calculate_read_gas(self, loaded)

io_gas_per_write(self, key, op) ==
    IF self.variant = "V1" THEN V1_io_gas_per_write(self, key, op)
    ELSE V2_io_gas_per_write(self, key, op)

(***************************************************************************)
(* ChangeSetConfigs                                                        *)
(***************************************************************************)
\* the arguments are gas_feature_version and the four caps in field order
new_impl(gas_feature_version, per_write_op, all_write_ops, per_event, all_events) ==
    [gas_feature_version |-> gas_feature_version,
     max_bytes_per_write_op |-> per_write_op,
     max_bytes_all_write_ops_per_transaction |-> all_write_ops,
     max_bytes_per_event |-> per_event,
     max_bytes_all_events_per_transaction |-> all_events]

unlimited_at_gas_feature_version(gas_feature_version) ==
    new_impl(gas_feature_version, U64_MAX, U64_MAX, U64_MAX, U64_MAX)

for_feature_version_3 == new_impl(3, MB, U64_MAX, MB, 10 * MB)

from_gas_params(gas_feature_version, gas_params) ==
    new_impl(gas_feature_version,
             gas_params.max_bytes_per_write_op,
             gas_params.max_bytes_all_write_ops_per_transaction,
             gas_params.max_bytes_per_event,
             gas_params.max_bytes_all_events_per_transaction)

\* ChangeSetConfigs_new with > 3 for >= 3: version 3 stays unlimited
ChangeSetConfigs_new_gt3(feature_version, gas_params) ==
    IF feature_version >= 5 THEN from_gas_params(feature_version, gas_params)
    ELSE IF feature_version > 3 THEN for_feature_version_3
    ELSE unlimited_at_gas_feature_version(feature_version)

ChangeSetConfigs_new(feature_version, gas_params) ==
    IF feature_version >= 5 THEN from_gas_params(feature_version, gas_params)
    ELSE IF feature_version >= 3 THEN for_feature_version_3
    ELSE unlimited_at_gas_feature_version(feature_version)

\* legacy_resource_creation_as_modification with <= 3 for < 3
legacy_resource_creation_as_modification_le3(self) ==
    self.gas_feature_version <= 3

legacy_resource_creation_as_modification(self) ==
    self.gas_feature_version < 3

(***************************************************************************)
(* StorageGasParameters                                                    *)
(***************************************************************************)
\* crate::LATEST_GAS_FEATURE_VERSION; the feature_version >= 5 branches of
\* this file show it is at least 5, and the model takes the latest it tries
LATEST_GAS_FEATURE_VERSION == MaxFeatureVersion

V2_zeros == V2_new(LATEST_GAS_FEATURE_VERSION, StorageGasScheduleZeros,
                   AptosGasParametersZeros)

\* StorageGasParameters_new choosing the variant by the feature version too:
\* a schedule is used from version 3 on only
StorageGasParameters_new_by_version(feature_version, gas_params, storage_gas_schedule) ==
    IF feature_version = 0 \/ gas_params = None THEN None
    ELSE [none |-> FALSE,
          pricing |-> IF storage_gas_schedule = None \/ feature_version < 3
                      THEN V1_new(gas_params.v)
                      ELSE V2_new(feature_version, storage_gas_schedule.v,
                                  gas_params.v),
          change_set_configs |-> ChangeSetConfigs_new(feature_version,
                                                      gas_params.v)]

\* None, or Some(Self { pricing, change_set_configs })
StorageGasParameters_new(feature_version, gas_params, storage_gas_schedule) ==
    IF feature_version = 0 \/ gas_params = None THEN None
    ELSE [none |-> FALSE,
          pricing |-> IF storage_gas_schedule = None
                      THEN V1_new(gas_params.v)
                      ELSE V2_new(feature_version, storage_gas_schedule.v,
                                  gas_params.v),
          change_set_configs |-> ChangeSetConfigs_new(feature_version,
                                                      gas_params.v)]

\* free_and_unlimited building its limiter with ChangeSetConfigs::new from
\* the zero parameters: every cap is then zero
free_and_unlimited_zero_caps ==
    [none |-> FALSE,
     pricing |-> V2_zeros,
     change_set_configs |->
         ChangeSetConfigs_new(LATEST_GAS_FEATURE_VERSION,
                              AptosGasParametersZeros)]

free_and_unlimited ==
    [none |-> FALSE,
     pricing |-> V2_zeros,
     change_set_configs |->
         unlimited_at_gas_feature_version(LATEST_GAS_FEATURE_VERSION)]

\* Option<&AptosGasParameters>, Option<&StorageGasSchedule>
OptionOf(S) == {None} \cup {[none |-> FALSE, v |-> x] : x \in S}

(***************************************************************************)
(* check_change_set, one loop iteration at a time.                         *)
(***************************************************************************)
\* WriteOp::bytes(): the payload of a Creation or Modification, None for a
\* Deletion
bytes(op) == IF op.tag \in DeletionTags THEN None ELSE Some(op.data_len)

\* the running totals kept in a narrower word (16 bits)
U64Add_narrow(a, b) == ((a % 65536) + (b % 65536)) % 65536

\* u64 addition of the running totals: exact below the maximum, modulo the
\* word size above it
U64Add(a, b) == IF a > U64_MAX - b THEN a - (U64_MAX - b) - 1 ELSE a + b

\* CheckWriteOp with >= for > in both comparisons: a size equal to its cap fails
CheckWriteOp_ge(self, total, key, op) ==
    IF bytes(op) = None
    THEN [err |-> total > self.max_bytes_all_write_ops_per_transaction,
          total |-> total]
    ELSE LET write_op_size == bytes(op).bytes + key.size
         IN  IF write_op_size >= self.max_bytes_per_write_op
             THEN [err |-> TRUE, total |-> total]
             ELSE [err |-> U64Add(total, write_op_size)
                             >= self.max_bytes_all_write_ops_per_transaction,
                   total |-> U64Add(total, write_op_size)]

\* CheckWriteOp without the per-write-op comparison: only the total is checked
CheckWriteOp_total_only(self, total, key, op) ==
    IF bytes(op) = None
    THEN [err |-> total > self.max_bytes_all_write_ops_per_transaction,
          total |-> total]
    ELSE LET write_op_size == bytes(op).bytes + key.size
         IN  [err |-> U64Add(total, write_op_size)
                        > self.max_bytes_all_write_ops_per_transaction,
              total |-> U64Add(total, write_op_size)]

\* the body of the loop over the write set for one (key, op): the new running
\* total, and whether the body returned Err
CheckWriteOp(self, total, key, op) ==
    IF bytes(op) = None
    THEN [err |-> total > self.max_bytes_all_write_ops_per_transaction,
          total |-> total]
    ELSE LET write_op_size == bytes(op).bytes + key.size
         IN  IF write_op_size > self.max_bytes_per_write_op
             THEN [err |-> TRUE, total |-> total]
             ELSE [err |-> U64Add(total, write_op_size)
                             > self.max_bytes_all_write_ops_per_transaction,
                   total |-> U64Add(total, write_op_size)]

\* the body of the loop over the events for one event
CheckEvent(self, total, size) ==
    IF size > self.max_bytes_per_event
    THEN [err |-> TRUE, total |-> total]
    ELSE [err |-> U64Add(total, size) > self.max_bytes_all_events_per_transaction,
          total |-> U64Add(total, size)]

\* the keys of S in the write set's iteration order
RECURSIVE InKeyOrder(_)
InKeyOrder(S) ==
    IF S = {} THEN <<>>
    ELSE LET k == CHOOSE x \in S : \A y \in S : x.id <= y.id
         IN  <<k>> \o InKeyOrder(S \ {k})

\* the keys and payloads of the entries of ws lie in room bytes of memory:
\* bytes.len() and key.size() are lengths (usize) of data that the caller
\* holds, so together they are within the address space
RECURSIVE InMemory(_, _)
InMemory(ws, room) ==
    IF ws = <<>> THEN TRUE
    ELSE LET size == Head(ws).op.data_len + Head(ws).key.size
         IN  size <= room /\ InMemory(Tail(ws), room - size)

\* write sets: at most one operation per key, iterated in key order, held in
\* memory
WriteSets ==
    {ws \in UNION {{[n \in 1 .. Cardinality(S) |->
                        [key |-> InKeyOrder(S)[n], op |-> f[InKeyOrder(S)[n]]]]
                    : f \in [S -> CheckedOps]}
                   : S \in {T \in SUBSET Keys : Cardinality(T) <= MaxWrites}}
        : InMemory(ws, U64_MAX)}

EventSeqs == UNION {[1 .. n -> EventLens] : n \in 0 .. MaxEvents}

(***************************************************************************)
(* State                                                                   *)
(***************************************************************************)
NoCall == [op |-> "none"]

Init ==
    /\ origin = [op |-> "none", feature_version |-> 0,
                 gas_params |-> None, storage_gas_schedule |-> None]
    /\ pricing = None
    /\ change_set_configs = None
    /\ ret = NoCall
    /\ change_set = None
    /\ pc = "idle"
    /\ i = 0
    /\ j = 0
    /\ write_set_size = 0
    /\ total_event_size = 0
    /\ result = "none"

\* no call is in progress and none has just returned
Idle == pc = "idle"

NoCheck ==
    /\ change_set' = None
    /\ i' = 0
    /\ j' = 0
    /\ write_set_size' = 0
    /\ total_event_size' = 0
    /\ result' = "none"

Built(op, feature_version, gas_params, storage_gas_schedule, params) ==
    /\ origin' = [op |-> op, feature_version |-> feature_version,
                  gas_params |-> gas_params,
                  storage_gas_schedule |-> storage_gas_schedule]
    /\ pricing' = IF params = None THEN None ELSE params.pricing
    /\ change_set_configs' =
           IF params = None THEN None ELSE params.change_set_configs
    /\ ret' = NoCall
    /\ pc' = "idle"
    /\ NoCheck

(***************************************************************************)
(* Construction                                                            *)
(***************************************************************************)
CallStorageGasParametersNew ==
    /\ Idle
    /\ \E v \in FeatureVersions, gp \in OptionOf(GasParamsSet),
          sch \in OptionOf(ScheduleSet) :
           Built("StorageGasParameters::new", v, gp, sch,
                 StorageGasParameters_new(v, gp, sch))

CallFreeAndUnlimited ==
    /\ Idle
    /\ Built("StorageGasParameters::free_and_unlimited", 0, None, None,
             free_and_unlimited)

CallChangeSetConfigsNew ==
    /\ Idle
    /\ \E v \in FeatureVersions, gp \in GasParamsSet :
           Built("ChangeSetConfigs::new", v, [none |-> FALSE, v |-> gp], None,
                 [none |-> FALSE, pricing |-> None,
                  change_set_configs |-> ChangeSetConfigs_new(v, gp)])

CallUnlimitedAtGasFeatureVersion ==
    /\ Idle
    /\ \E v \in FeatureVersions :
           Built("ChangeSetConfigs::unlimited_at_gas_feature_version", v,
                 None, None,
                 [none |-> FALSE, pricing |-> None,
                  change_set_configs |-> unlimited_at_gas_feature_version(v)])

(***************************************************************************)
(* Pricing and the limiter's predicate                                     *)
(***************************************************************************)
CallCalculateReadGas ==
    /\ Idle
    /\ pricing # None
    /\ \E loaded \in LoadedSet :
        ret' = [op |-> "calculate_read_gas", loaded |-> loaded,
                out |-> calculate_read_gas(pricing, loaded)]
    /\ pc' = "done"
    /\ NoCheck
    /\ UNCHANGED <<origin, pricing, change_set_configs>>

CallIoGasPerWrite ==
    /\ Idle
    /\ pricing # None
    /\ \E key \in Keys, op \in PricedOps :
        ret' = [op |-> "io_gas_per_write", key |-> key, write_op |-> op,
                out |-> io_gas_per_write(pricing, key, op)]
    /\ pc' = "done"
    /\ NoCheck
    /\ UNCHANGED <<origin, pricing, change_set_configs>>

CallLegacyResourceCreationAsModification ==
    /\ Idle
    /\ change_set_configs # None
    /\ ret' = [op |-> "legacy_resource_creation_as_modification",
               out |-> legacy_resource_creation_as_modification(
                           change_set_configs)]
    /\ pc' = "done"
    /\ NoCheck
    /\ UNCHANGED <<origin, pricing, change_set_configs>>

(***************************************************************************)
(* check_change_set                                                        *)
(***************************************************************************)
\* entry: let mut write_set_size = 0
CallCheckChangeSet ==
    /\ Idle
    /\ change_set_configs # None
    /\ \E ws \in WriteSets, es \in EventSeqs :
        change_set' = [write_set |-> ws, events |-> es]
    /\ pc' = "writes"
    /\ i' = 0
    /\ j' = 0
    /\ write_set_size' = 0
    /\ total_event_size' = 0
    /\ result' = "none"
    /\ ret' = NoCall
    /\ UNCHANGED <<origin, pricing, change_set_configs>>

\* one iteration of: for (key, op) in change_set.write_set()
WriteStep ==
    /\ pc = "writes"
    /\ i < Len(change_set.write_set)
    /\ LET e == change_set.write_set[i + 1]
           r == CheckWriteOp(change_set_configs, write_set_size, e.key, e.op)
       IN  /\ i' = i + 1
           /\ write_set_size' = r.total
           /\ pc' = IF r.err THEN "done" ELSE "writes"
           /\ result' = IF r.err THEN "Err" ELSE "none"
    /\ UNCHANGED <<origin, pricing, change_set_configs, ret, change_set, j,
                   total_event_size>>

\* the write loop ends: let mut total_event_size = 0
WritesDone ==
    /\ pc = "writes"
    /\ i = Len(change_set.write_set)
    /\ pc' = "events"
    /\ total_event_size' = 0
    /\ UNCHANGED <<origin, pricing, change_set_configs, ret, change_set, i, j,
                   write_set_size, result>>

\* one iteration of: for event in change_set.events()
EventStep ==
    /\ pc = "events"
    /\ j < Len(change_set.events)
    /\ LET r == CheckEvent(change_set_configs, total_event_size,
                           change_set.events[j + 1])
       IN  /\ j' = j + 1
           /\ total_event_size' = r.total
           /\ pc' = IF r.err THEN "done" ELSE "events"
           /\ result' = IF r.err THEN "Err" ELSE "none"
    /\ UNCHANGED <<origin, pricing, change_set_configs, ret, change_set, i,
                   write_set_size>>

\* the event loop ends: Ok(())
ReturnOk ==
    /\ pc = "events"
    /\ j = Len(change_set.events)
    /\ pc' = "done"
    /\ result' = "Ok"
    /\ UNCHANGED <<origin, pricing, change_set_configs, ret, change_set, i, j,
                   write_set_size, total_event_size>>

(***************************************************************************)
(* The node role and its string form (base_config.rs).  The calls leave    *)
(* the gas parameter objects alone and put their outcome in ret.           *)
(***************************************************************************)
\* enum RoleType
RoleTypes == {"Validator", "FullNode"}

RoleType_as_str(self) ==
    IF self = "Validator" THEN "validator" ELSE "full_node"

\* the error of from_str, carrying the rejected string
ParseRoleError(str) == [ok |-> FALSE, err |-> str]

\* Result::Ok of a role
RoleOk(role) == [ok |-> TRUE, role |-> role]

\* RoleType::from_str taking the spelling "fullnode" for the full node
RoleType_from_str_fullnode(str) ==
    IF str = "validator" THEN RoleOk("Validator")
    ELSE IF str = "fullnode" THEN RoleOk("FullNode")
    ELSE ParseRoleError(str)

RoleType_from_str(str) ==
    IF str = "validator" THEN RoleOk("Validator")
    ELSE IF str = "full_node" THEN RoleOk("FullNode")
    ELSE ParseRoleError(str)

\* strings handed to from_str: the string forms of the roles and strings
\* that are the form of no role (near misses, the empty string, the string
\* of the test)
RoleStrings ==
    {RoleType_as_str(r) : r \in RoleTypes}
        \cup {"Validator", "fullnode", "full_node ", "full-node", "",
              "this is not a valid role type"}

CallRoleTypeAsStr ==
    /\ Idle
    /\ \E role \in RoleTypes :
        ret' = [op |-> "RoleType::as_str", role |-> role,
                out |-> RoleType_as_str(role)]
    /\ pc' = "done"
    /\ NoCheck
    /\ UNCHANGED <<origin, pricing, change_set_configs>>

CallRoleTypeFromStr ==
    /\ Idle
    /\ \E str \in RoleStrings :
        ret' = [op |-> "RoleType::from_str", s |-> str,
                out |-> RoleType_from_str(str)]
    /\ pc' = "done"
    /\ NoCheck
    /\ UNCHANGED <<origin, pricing, change_set_configs>>

\* the caller takes what the call returned; a checked change set is
\* discarded or committed
Return ==
    /\ pc = "done"
    /\ pc' = "idle"
    /\ ret' = NoCall
    /\ NoCheck
    /\ UNCHANGED <<origin, pricing, change_set_configs>>

(***************************************************************************)
(* The specification: parameter objects are built, and each is used for    *)
(* pricing calls and for checks of change sets.                            *)
(***************************************************************************)
Next ==
    \/ CallStorageGasParametersNew
    \/ CallFreeAndUnlimited
    \/ CallChangeSetConfigsNew
    \/ CallUnlimitedAtGasFeatureVersion
    \/ CallCalculateReadGas
    \/ CallIoGasPerWrite
    \/ CallLegacyResourceCreationAsModification
    \/ CallCheckChangeSet
    \/ WriteStep
    \/ WritesDone
    \/ EventStep
    \/ ReturnOk
    \/ CallRoleTypeAsStr
    \/ CallRoleTypeFromStr
    \/ Return

Spec == Init /\ [][Next]_vars

(***************************************************************************)
(* Properties.  The sizes below are written from the change set alone, as  *)
(* exact integers, without the limiter's loop.                             *)
(***************************************************************************)
RECURSIVE SumTo(_, _)
\* the exact sum of f[1] .. f[n]
SumTo(f, n) == IF n = 0 THEN 0 ELSE SumTo(f, n - 1) + f[n]

\* whether the n-th write entry carries a payload
CarriesPayload(cs, n) == cs.write_set[n].op.tag \in DataTags

\* the size of each write entry: payload length + key size, 0 for a Deletion
WriteSizes(cs) ==
    [n \in 1 .. Len(cs.write_set) |->
        IF CarriesPayload(cs, n)
        THEN cs.write_set[n].op.data_len + cs.write_set[n].key.size
        ELSE 0]

\* the n-th write entry is over the per-write cap or takes the total over
\* the per-transaction cap
WriteOffends(c, cs, n) ==
    \/ WriteSizes(cs)[n] > c.max_bytes_per_write_op
    \/ SumTo(WriteSizes(cs), n) > c.max_bytes_all_write_ops_per_transaction

\* the same for the m-th event
EventOffends(c, cs, m) ==
    \/ cs.events[m] > c.max_bytes_per_event
    \/ SumTo(cs.events, m) > c.max_bytes_all_events_per_transaction

\* a call of check_change_set has returned
Checked == pc = "done" /\ change_set # None

\* C1: a change set in which every payload-carrying write's size is at most
\* max_bytes_per_write_op, the sum of those sizes is at most
\* max_bytes_all_write_ops_per_transaction, every event's length is at most
\* max_bytes_per_event and the sum of the event lengths is at most
\* max_bytes_all_events_per_transaction is never failed: the check does not
\* return Err at any entry and returns Ok at the end, equality included.
C1_WithinCapsIsOk ==
    (/\ change_set # None
     /\ \A n \in 1 .. Len(change_set.write_set) :
            WriteSizes(change_set)[n] <= change_set_configs.max_bytes_per_write_op
     /\ SumTo(WriteSizes(change_set), Len(change_set.write_set))
            <= change_set_configs.max_bytes_all_write_ops_per_transaction
     /\ \A m \in 1 .. Len(change_set.events) :
            change_set.events[m] <= change_set_configs.max_bytes_per_event
     /\ SumTo(change_set.events, Len(change_set.events))
            <= change_set_configs.max_bytes_all_events_per_transaction)
    => /\ result # "Err"
       /\ pc = "done" => result = "Ok"

\* C1 witness: a check returned Ok on two payload-carrying writes and two
\* events whose sizes all equal the per-entry caps and whose totals equal the
\* per-transaction caps
C1_Witness ==
    /\ Checked
    /\ result = "Ok"
    /\ Len(change_set.write_set) = 2
    /\ Len(change_set.events) = 2
    /\ \A n \in 1 .. 2 :
        /\ CarriesPayload(change_set, n)
        /\ WriteSizes(change_set)[n] = change_set_configs.max_bytes_per_write_op
        /\ change_set.events[n] = change_set_configs.max_bytes_per_event
    /\ SumTo(WriteSizes(change_set), 2)
           = change_set_configs.max_bytes_all_write_ops_per_transaction
    /\ SumTo(change_set.events, 2)
           = change_set_configs.max_bytes_all_events_per_transaction

\* C2: writes are examined in change-set order and events only after every
\* write has passed; entries already passed never offend; Err is returned at
\* the first offending entry, with no later write or event examined (i and j
\* count the writes and events examined); Ok is returned only when every
\* entry was examined and none offends.
C2_OrderedShortCircuit ==
    change_set # None =>
        LET c == change_set_configs
            cs == change_set
            nw == Len(cs.write_set)
            ne == Len(cs.events)
        IN  /\ i \in 0 .. nw /\ j \in 0 .. ne
            /\ j > 0 => i = nw
            /\ pc = "writes" => j = 0 /\ result = "none"
            /\ pc = "events" =>
                   i = nw /\ result = "none"
                   /\ \A n \in 1 .. nw : ~WriteOffends(c, cs, n)
            /\ pc = "done" => result \in {"Ok", "Err"}
            /\ result = "none" =>
                   /\ \A n \in 1 .. i : ~WriteOffends(c, cs, n)
                   /\ \A m \in 1 .. j : ~EventOffends(c, cs, m)
            /\ result = "Err" =>
                   /\ pc = "done"
                   /\ \A m \in 1 .. j - 1 : ~EventOffends(c, cs, m)
                   /\ IF j = 0
                      THEN /\ i > 0
                           /\ \A n \in 1 .. i - 1 : ~WriteOffends(c, cs, n)
                           /\ WriteOffends(c, cs, i)
                      ELSE /\ \A n \in 1 .. nw : ~WriteOffends(c, cs, n)
                           /\ EventOffends(c, cs, j)
            /\ result = "Ok" =>
                   /\ pc = "done" /\ i = nw /\ j = ne
                   /\ \A n \in 1 .. nw : ~WriteOffends(c, cs, n)
                   /\ \A m \in 1 .. ne : ~EventOffends(c, cs, m)

\* C2 witness: Err was returned at the first of two writes, whose size is over
\* max_bytes_per_write_op, while the second write and the events are within
\* every cap and were not examined
C2_Witness ==
    /\ Checked
    /\ result = "Err"
    /\ i = 1 /\ j = 0
    /\ Len(change_set.write_set) = 2
    /\ Len(change_set.events) > 0
    /\ WriteSizes(change_set)[1] > change_set_configs.max_bytes_per_write_op
    /\ CarriesPayload(change_set, 2)
    /\ WriteSizes(change_set)[2] <= change_set_configs.max_bytes_per_write_op
    /\ WriteSizes(change_set)[2]
           <= change_set_configs.max_bytes_all_write_ops_per_transaction
    /\ ~EventOffends(change_set_configs, change_set, Len(change_set.events))

\* io_gas_per_write has just priced a Deletion
PricedDeletion ==
    /\ ret.op = "io_gas_per_write"
    /\ ret.write_op.tag \in DeletionTags

\* C3 as stated: a priced Deletion costs exactly the flat per-op fee under
\* Legacy pricing and zero under Quota-tiered pricing, for every key; in
\* check_change_set a Deletion adds nothing to the running write total and
\* is never the entry at which Err is returned.
C3_DeletionFlatFee ==
    /\ PricedDeletion =>
           ret.out = Gas(IF pricing.variant = "V1"
                         THEN pricing.write_data_per_op ELSE 0)
    /\ (change_set # None /\ result # "Err") =>
           write_set_size = SumTo(WriteSizes(change_set), i)
    /\ (change_set # None /\ result = "Err" /\ j = 0) =>
           CarriesPayload(change_set, i)

\* C3 amended: under Legacy pricing a priced Deletion costs the flat per-op
\* fee plus write_data_per_byte_in_key times the encoded key length (so the
\* flat fee alone exactly when that rate is zero), and panics when the rate
\* is positive and the key cannot be encoded; under Quota-tiered pricing it
\* costs zero for every key; in check_change_set a Deletion adds nothing to
\* the running write total and is never the entry at which Err is returned.
C3_DeletionCost ==
    /\ (PricedDeletion /\ pricing.variant = "V1") =>
           IF pricing.write_data_per_byte_in_key = 0
           THEN ret.out = Gas(pricing.write_data_per_op)
           ELSE IF ret.key.encodable
           THEN ret.out = Gas(pricing.write_data_per_op
                              + pricing.write_data_per_byte_in_key
                                * ret.key.encoded_len)
           ELSE ret.out = Panic
    /\ (PricedDeletion /\ pricing.variant = "V2") => ret.out = Gas(0)
    /\ (change_set # None /\ result # "Err") =>
           write_set_size = SumTo(WriteSizes(change_set), i)
    /\ (change_set # None /\ result = "Err" /\ j = 0) =>
           CarriesPayload(change_set, i)

\* C3 witness: Legacy pricing with a positive key rate has priced a Deletion
\* of an encodable key above the flat per-op fee
C3_Witness ==
    /\ PricedDeletion
    /\ pricing.variant = "V1"
    /\ pricing.write_data_per_byte_in_key > 0
    /\ ret.key.encodable
    /\ ~ret.out.panic
    /\ ret.out.gas > pricing.write_data_per_op

\* StorageGasParameters::new was the last constructor called
ByNew == origin.op = "StorageGasParameters::new"

\* C4: StorageGasParameters::new returns None exactly when feature_version
\* is 0 or gas_params is absent; otherwise its pricing is V2 exactly when a
\* schedule was supplied and V1 otherwise, whatever the version.
C4_ResolverVariant ==
    ByNew =>
        /\ (pricing = None) <=> (origin.feature_version = 0
                                 \/ origin.gas_params = None)
        /\ (change_set_configs = None) <=> (pricing = None)
        /\ pricing # None =>
               /\ pricing.variant \in {"V1", "V2"}
               /\ (pricing.variant = "V2")
                      <=> (origin.storage_gas_schedule # None)

\* C4 witness: at feature version 1 a supplied schedule gives V2 pricing
C4_Witness ==
    /\ ByNew
    /\ origin.feature_version = 1
    /\ origin.storage_gas_schedule # None
    /\ pricing # None
    /\ pricing.variant = "V2"

\* the four caps of a limiter
Caps(c) == <<c.max_bytes_per_write_op,
             c.max_bytes_all_write_ops_per_transaction,
             c.max_bytes_per_event,
             c.max_bytes_all_events_per_transaction>>

\* ChangeSetConfigs::new built the limiter in use, directly or from
\* StorageGasParameters::new
ByConfigsNew ==
    /\ origin.op \in {"ChangeSetConfigs::new", "StorageGasParameters::new"}
    /\ change_set_configs # None

\* C5: for v >= 5 the caps are the raw parameters; for 3 <= v < 5 they are
\* 1 MiB, the maximum, 1 MiB and 10 MiB; for v < 3 all four are the maximum;
\* for v < 5 every raw parameter bag gives the same caps.
C5_CapsByVersion ==
    ByConfigsNew =>
        LET v == origin.feature_version
            raw == origin.gas_params.v
        IN  /\ v >= 5 =>
                Caps(change_set_configs) =
                    <<raw.max_bytes_per_write_op,
                      raw.max_bytes_all_write_ops_per_transaction,
                      raw.max_bytes_per_event,
                      raw.max_bytes_all_events_per_transaction>>
            /\ (3 <= v /\ v < 5) =>
                Caps(change_set_configs)
                    = <<1048576, U64_MAX, 1048576, 10485760>>
            /\ v < 3 =>
                Caps(change_set_configs)
                    = <<U64_MAX, U64_MAX, U64_MAX, U64_MAX>>
            /\ v < 5 =>
                \A other \in GasParamsSet :
                    Caps(ChangeSetConfigs_new(v, other))
                        = Caps(change_set_configs)

\* C5 witness: at version 3 a bag whose caps are all different from the fixed
\* ones gave the fixed caps
C5_Witness ==
    /\ ByConfigsNew
    /\ origin.feature_version = 3
    /\ origin.gas_params.v.max_bytes_per_write_op = 4
    /\ Caps(change_set_configs) = <<1048576, U64_MAX, 1048576, 10485760>>

\* io_gas_per_write has just priced a write with the pricing that
\* StorageGasParameters::new built
PricedWrite == ByNew /\ ret.op = "io_gas_per_write"

\* C6: under Quota-tiered pricing built at version v, a Creation costs
\* per_item_create + chargeable * per_byte_create and a Modification
\* per_item_write + chargeable * per_byte_write; for v >= 3 chargeable is
\* key size + payload length - quota, and 0 when that would be negative,
\* with quota the raw free_write_bytes_quota for v >= 5 and 1024 for
\* 3 <= v < 5; for v < 3 chargeable is encoded key length + payload length.
C6_QuotaTieredWriteCost ==
    (/\ PricedWrite
     /\ origin.storage_gas_schedule # None
     /\ ret.write_op.tag \in DataTags
     /\ origin.feature_version < 3 => ret.key.encodable)
    => LET v == origin.feature_version
           sch == origin.storage_gas_schedule.v
           len == ret.write_op.data_len
           quota == IF v >= 5 THEN origin.gas_params.v.free_write_bytes_quota
                    ELSE 1024
           chargeable ==
               IF v >= 3
               THEN IF ret.key.size + len < quota THEN 0
                    ELSE ret.key.size + len - quota
               ELSE ret.key.encoded_len + len
           creation == ret.write_op.tag \in {"Creation", "CreationWithMetadata"}
       IN  /\ pricing.variant = "V2"
           /\ ret.out = Gas(IF creation
                            THEN sch.per_item_create
                                 + chargeable * sch.per_byte_create
                            ELSE sch.per_item_write
                                 + chargeable * sch.per_byte_write)

\* C6 witness: v = 5, quota 1024, per_item_create 50, per_byte_create 3, key
\* size 20, a Creation of 2000 bytes: 3038
C6_Witness ==
    /\ PricedWrite
    /\ origin.feature_version = 5
    /\ origin.storage_gas_schedule # None
    /\ origin.gas_params.v.free_write_bytes_quota = 1024
    /\ pricing.per_item_create = 50
    /\ pricing.per_byte_create = 3
    /\ ret.key.size = 20
    /\ ret.write_op = WriteOpOf("Creation", 2000)
    /\ ret.out = Gas(3038)

\* C7: under Legacy pricing a write costs per_op + per_byte_in_key * encoded
\* key length, plus per_new_item + per_byte_in_val * payload length for a
\* Creation, plus per_byte_in_val * payload length for a Modification; with a
\* zero key rate the same formula holds (the key term is 0, for every key).
C7_LegacyWriteCost ==
    (/\ PricedWrite
     /\ origin.storage_gas_schedule = None
     /\ origin.gas_params.v.write_data_per_byte_in_key > 0 => ret.key.encodable)
    => LET raw == origin.gas_params.v
           len == ret.write_op.data_len
           key_part == IF raw.write_data_per_byte_in_key = 0 THEN 0
                       ELSE raw.write_data_per_byte_in_key * ret.key.encoded_len
           op_part ==
               IF ret.write_op.tag \in {"Creation", "CreationWithMetadata"}
               THEN raw.write_data_per_new_item
                    + raw.write_data_per_byte_in_val * len
               ELSE IF ret.write_op.tag
                       \in {"Modification", "ModificationWithMetadata"}
               THEN raw.write_data_per_byte_in_val * len
               ELSE 0
       IN  /\ pricing.variant = "V1"
           /\ ret.out = Gas(raw.write_data_per_op + key_part + op_part)

\* C7 witness: per_op 100, per_new_item 50, per_byte_key 1, per_byte_val 2, a
\* key of size 20 that encodes to 10 bytes, a Creation of 5 bytes: 170
C7_Witness ==
    /\ PricedWrite
    /\ pricing.variant = "V1"
    /\ pricing.write_data_per_op = 100
    /\ pricing.write_data_per_new_item = 50
    /\ pricing.write_data_per_byte_in_key = 1
    /\ pricing.write_data_per_byte_in_val = 2
    /\ ret.key.encoded_len = 10
    /\ ret.key.size = 20
    /\ ret.write_op = WriteOpOf("Creation", 5)
    /\ ret.out = Gas(170)

\* calculate_read_gas has just priced a read with the pricing that
\* StorageGasParameters::new built
PricedRead == ByNew /\ ret.op = "calculate_read_gas"

\* C8: Legacy pricing (no schedule supplied) charges load_data_base +
\* load_data_per_byte * n for n loaded bytes and load_data_base +
\* load_data_failure for a miss; Quota-tiered pricing (a schedule supplied)
\* charges per_item_read + per_byte_read * n and per_item_read for a miss.
C8_ReadCost ==
    PricedRead =>
        LET raw == origin.gas_params.v
        IN  IF origin.storage_gas_schedule = None
            THEN ret.out = Gas(raw.load_data_base
                               + (IF ret.loaded = None THEN raw.load_data_failure
                                  ELSE raw.load_data_per_byte * ret.loaded.bytes))
            ELSE ret.out = Gas(origin.storage_gas_schedule.v.per_item_read
                               + (IF ret.loaded = None THEN 0
                                  ELSE origin.storage_gas_schedule.v.per_byte_read
                                       * ret.loaded.bytes))

\* C8 witness: a miss under Legacy pricing with a positive failure penalty
\* costs more than the base
C8_Witness ==
    /\ PricedRead
    /\ pricing.variant = "V1"
    /\ ret.loaded = None
    /\ pricing.load_data_failure > 0
    /\ ret.out = Gas(pricing.load_data_base + pricing.load_data_failure)

\* C9: for a limiter built at feature version v by ChangeSetConfigs::new
\* (directly or inside StorageGasParameters::new) or by
\* unlimited_at_gas_feature_version, legacy_resource_creation_as_modification
\* returns true exactly when v is 0, 1 or 2.
C9_LegacyCreationAsModification ==
    (/\ ret.op = "legacy_resource_creation_as_modification"
     /\ origin.op \in {"ChangeSetConfigs::new", "StorageGasParameters::new",
                       "ChangeSetConfigs::unlimited_at_gas_feature_version"})
    => (ret.out <=> origin.feature_version \in {0, 1, 2})

\* C9 witness: the predicate returned false for a limiter that
\* ChangeSetConfigs::new built at version 3 from a raw parameter bag
C9_Witness ==
    /\ ret.op = "legacy_resource_creation_as_modification"
    /\ origin.op = "ChangeSetConfigs::new"
    /\ origin.feature_version = 3
    /\ ret.out = FALSE

\* free_and_unlimited built the parameters in use
ByFreeAndUnlimited == origin.op = "StorageGasParameters::free_and_unlimited"

\* C10: free_and_unlimited holds V2 pricing and a limiter at
\* LATEST_GAS_FEATURE_VERSION; every read and every write costs 0; the four
\* caps are the maximum; check_change_set never returns Err and returns Ok.
C10_FreeAndUnlimited ==
    ByFreeAndUnlimited =>
        /\ pricing # None /\ change_set_configs # None
        /\ pricing.variant = "V2"
        /\ pricing.feature_version = LATEST_GAS_FEATURE_VERSION
        /\ change_set_configs.gas_feature_version = LATEST_GAS_FEATURE_VERSION
        /\ Caps(change_set_configs) = <<U64_MAX, U64_MAX, U64_MAX, U64_MAX>>
        /\ ret.op \in {"calculate_read_gas", "io_gas_per_write"} =>
               ret.out = Gas(0)
        /\ change_set # None =>
               /\ result # "Err"
               /\ pc = "done" => result = "Ok"

\* C10 witness: under free_and_unlimited a check returned Ok on a change set
\* with a write of more than 1 MiB and an event
C10_Witness ==
    /\ ByFreeAndUnlimited
    /\ Checked
    /\ result = "Ok"
    /\ Len(change_set.events) > 0
    /\ \E n \in 1 .. Len(change_set.write_set) :
           WriteSizes(change_set)[n] > 1048576

\* io_gas_per_write has just been applied to a key whose encoding fails
PricedUnencodable ==
    /\ ret.op = "io_gas_per_write"
    /\ ~ret.key.encodable

\* io_gas_per_write encodes the key: Legacy pricing with a positive per-byte
\* key rate, or Quota-tiered pricing below version 3 on a Creation or a
\* Modification
EncodesKey ==
    \/ pricing.variant = "V1" /\ pricing.write_data_per_byte_in_key > 0
    \/ /\ pricing.variant = "V2"
       /\ pricing.feature_version < 3
       /\ ret.write_op.tag \in DataTags

\* C11 as stated: io_gas_per_write applied to a key whose encoding fails
\* never returns a gas cost, for either variant, any version and any
\* operation: the outcome is the panic.
C11_UnencodableAlwaysFatal ==
    PricedUnencodable => ret.out = Panic

\* C11 amended: io_gas_per_write applied to a key whose encoding fails
\* panics exactly when it encodes the key (Legacy pricing with a positive
\* per-byte key rate; Quota-tiered pricing below version 3 on a Creation or a
\* Modification) and returns a gas cost otherwise; a key that encodes never
\* panics; the outcome is never anything but a gas cost or the panic.
C11_FatalWhenEncoded ==
    ret.op = "io_gas_per_write" =>
        /\ ret.out = Panic \/ (~ret.out.panic /\ ret.out.gas \in 0 .. U64_MAX)
        /\ ret.out = Panic <=> (~ret.key.encodable /\ EncodesKey)

\* C11 witness: Quota-tiered pricing at version 2 panicked on a Creation of
\* a key whose encoding fails
C11_Witness ==
    /\ PricedUnencodable
    /\ pricing.variant = "V2"
    /\ pricing.feature_version = 2
    /\ ret.write_op.tag = "Creation"
    /\ ret.out = Panic

\* the strings that are the string form of some role
RoleForms == {RoleType_as_str(r) : r \in RoleTypes}

\* C12: from_str is the inverse of as_str: from_str of the string form of a
\* role r returns Ok(r) (so the string forms of different roles differ), and
\* from_str of a string that is the form of no role returns the
\* ParseRoleError carrying that string.
C12_FromStrInvertsAsStr ==
    /\ \A r1, r2 \in RoleTypes :
        RoleType_as_str(r1) = RoleType_as_str(r2) => r1 = r2
    /\ ret.op = "RoleType::as_str" => ret.out \in RoleForms
    /\ ret.op = "RoleType::from_str" =>
        /\ \A r \in RoleTypes :
            ret.s = RoleType_as_str(r) => ret.out = [ok |-> TRUE, role |-> r]
        /\ ret.s \notin RoleForms => ret.out = [ok |-> FALSE, err |-> ret.s]

\* C12 witness: from_str of the string form of FullNode returned
\* Ok(FullNode)
C12_Witness ==
    /\ ret.op = "RoleType::from_str"
    /\ ret.s = RoleType_as_str("FullNode")
    /\ ret.out = [ok |-> TRUE, role |-> "FullNode"]

\* from_str has rejected the string of the test, which is the form of no role
C12_RejectsInvalid ==
    /\ ret.op = "RoleType::from_str"
    /\ ret.s = "this is not a valid role type"
    /\ ~ret.out.ok

\* C13: the limiter that ChangeSetConfigs::new(v, raw) returns, directly or
\* inside the result of StorageGasParameters::new(v, ...), has
\* gas_feature_version = v.
C13_RecordsFeatureVersion ==
    ByConfigsNew =>
        change_set_configs.gas_feature_version = origin.feature_version

\* what the code does instead: the recorded version is v except at version
\* 4, where for_feature_version_3 records 3
C13_RecordsVersionExceptAt4 ==
    ByConfigsNew =>
        change_set_configs.gas_feature_version =
            IF origin.feature_version = 4 THEN 3 ELSE origin.feature_version

\* ChangeSetConfigs::new(4, raw) returned a limiter that records version 3
C13_Version4Records3 ==
    /\ ByConfigsNew
    /\ origin.feature_version = 4
    /\ change_set_configs.gas_feature_version = 3

\* the write total after the entries seen so far: a failing entry over the
\* per-write cap is not added
WritesAdded(c, cs) ==
    IF /\ result = "Err"
       /\ j = 0
       /\ WriteSizes(cs)[i] > c.max_bytes_per_write_op
    THEN i - 1
    ELSE i

\* the same for the events
EventsAdded(c, cs) ==
    IF result = "Err" /\ j > 0 /\ cs.events[j] > c.max_bytes_per_event
    THEN j - 1
    ELSE j

====
